---- MODULE Spec2Model ----
(***************************************************************************)
(* A model of the KWC_2 experiment scripts: paintings (landscape or        *)
(* portrait, each with a tag set) are grouped into frameglasses and the    *)
(* frameglasses are ordered greedily by local satisfaction.                *)
(*                                                                         *)
(*   main.py                      create_frameglasses, optimize_chunk      *)
(*                                under a process pool, merge_chunks       *)
(*   10_computable_moments.py     create_frameglasses, optimize_sequence   *)
(*   110_oily_portraits.py        fast_pair_portraits, greedy_arrangement  *)
(*   11_randomizing_paintings.py  pair_portraits,                          *)
(*                                arrange_landscapes_by_rare_tags,         *)
(*                                batch_processing, fast_greedy            *)
(*                                                                         *)
(* Python lists are sequences; a Python index i is position i+1 here.      *)
(* Painting indices stored in frames are the 0-based indices of the code.  *)
(* A frameglass of main.py / 10_computable_moments.py is the pair          *)
(* <<frame, tags>> (the Python tuple (list of indices, tag set)); a frame  *)
(* of the pandas scripts is the list of indices alone.                     *)
(***************************************************************************)
EXTENDS Integers, Sequences, FiniteSets, TLC

\* ------------------------------------------------------------------ bounds

\* Largest number of paintings in an input file.
MaxPaintings == 3

\* Largest chunk_size process_data of main.py is called with.
MaxChunkSize == 3

\* The tags an input may use.
Tags == {"a", "b", "c"}

\* The painting types the inputs use.
PaintingTypes == {"L", "P"}

\* Largest batch_size batch_processing is called with.
MaxBatchSize == 3

\* The number of paintings of the inputs that fill two batches.
MaxBatchPaintings == 6

\* The number of portraits of the inputs that give greedy_arrangement three
\* frames.
MaxLoopPaintings == 6

\* The tags of the sets given to the scorer alone: six, so that two sets can
\* have two tags in common and two tags each of their own.
ScorerTags == {"a", "b", "c", "d", "e", "f"}

\* ------------------------------------------------------- program constants

\* fast_pair_portraits scans items[:50].
PairWindow == 50

\* greedy_arrangement scans glassframes[:100].
ArrangeWindow == 100

\* process_file_with_optimizations calls batch_processing(batch_size=100).
BatchSize == 100

\* process_data(..., num_processes=4, ...): the size of the process pool.
NumProcesses == 4

\* ----------------------------------------------------------- list helpers

Min2(a, b) == IF a <= b THEN a ELSE b

Min3(a, b, c) == Min2(a, Min2(b, c))

\* list[:n]
Prefix(s, n) == SubSeq(s, 1, Min2(n, Len(s)))

\* list.pop(p) leaves the list without position p (1-based here).
RemoveAt(s, p) == SubSeq(s, 1, p - 1) \o SubSeq(s, p + 1, Len(s))

\* list.remove(x): the list without its first element equal to x.
RemoveFirst(s, x) ==
  LET p == CHOOSE q \in 1..Len(s) : s[q] = x /\ \A r \in 1..(q - 1) : s[r] # x
  IN  RemoveAt(s, p)

\* The set of elements of a list.
Range(s) == {s[p] : p \in 1..Len(s)}

\* max(..., key=...) over a list of keys: with several maximal keys Python's
\* max returns the first one it meets.
ArgMaxFirst(keys) ==
  CHOOSE j \in 1..Len(keys) : /\ \A k \in 1..Len(keys) : keys[k] <= keys[j]
                              /\ \A k \in 1..(j - 1) : keys[k] < keys[j]

\* Python compares lists of integers lexicographically, a proper prefix first.
RECURSIVE ListLess(_, _)
ListLess(f, g) ==
  IF g = <<>> THEN FALSE
  ELSE IF f = <<>> THEN TRUE
  ELSE IF f[1] # g[1] THEN f[1] < g[1]
  ELSE ListLess(Tail(f), Tail(g))

\* ------------------------------------------------------------ parse_input

\* The (type, tags) pairs parse_input returns, as records.
Painting == [ptype : PaintingTypes, tags : SUBSET Tags]

Inputs == UNION {[1..n -> Painting] : n \in 0..MaxPaintings}

\* Tag sets that score 1 and 0 against each other.
ScoringTagSets == {{"a"}, {"a", "b"}, {"b", "c"}}

\* The input files of at most MaxPaintings lines over these tag sets.
SmallInputs ==
  UNION {[1..n -> [ptype : PaintingTypes, tags : ScoringTagSets]] : n \in 0..MaxPaintings}

\* tags_cache = {idx: row["Tags"]}: painting index -> tag set.
TagsCache(ps) == [i \in 0..(Len(ps) - 1) |-> ps[i + 1].tags]

\* The sub-dictionary {idx: tags_cache[idx] for idx in ...} of one type, as the
\* list of its items in index order.
RECURSIVE ItemsOfType(_, _, _)
ItemsOfType(ps, t, p) ==
  IF p > Len(ps) THEN <<>>
  ELSE (IF ps[p].ptype = t THEN << <<p - 1, ps[p].tags>> >> ELSE <<>>)
       \o ItemsOfType(ps, t, p + 1)

\* list(paintings.items()) of the whole tags_cache.
AllItems(ps) == [p \in 1..Len(ps) |-> <<p - 1, ps[p].tags>>]

\* set.union(*[tags_cache[idx] for idx in frame])
FrameTags(frame, cache) == UNION {cache[frame[p]] : p \in 1..Len(frame)}

\* ---------------------------------------------------- Satisfaction Scorer

\* calculate_local_satisfaction without only_in_tags2.
calculate_local_satisfaction_OneSided(tags1, tags2) ==
  Min2(Cardinality(tags1 \cap tags2), Cardinality(tags1 \ tags2))

calculate_local_satisfaction(tags1, tags2) ==
  Min3(Cardinality(tags1 \cap tags2),
       Cardinality(tags1 \ tags2),
       Cardinality(tags2 \ tags1))

RECURSIVE calculate_global_score(_)
calculate_global_score(seq) ==
  IF Len(seq) <= 1 THEN 0
  ELSE calculate_local_satisfaction(seq[1][2], seq[2][2])
       + calculate_global_score(Tail(seq))

RECURSIVE calculate_score(_, _)
calculate_score(fs, cache) ==
  IF Len(fs) <= 1 THEN 0
  ELSE calculate_local_satisfaction(FrameTags(fs[1], cache), FrameTags(fs[2], cache))
       + calculate_score(Tail(fs), cache)

\* ------------------------------------------------------ Frameglass Builder

\* landscapes.append(([i], tags))
RECURSIVE LandscapeFrameglasses(_, _)
LandscapeFrameglasses(ps, p) ==
  IF p > Len(ps) THEN <<>>
  ELSE (IF ps[p].ptype = "L" THEN << << <<p - 1>>, ps[p].tags >> >> ELSE <<>>)
       \o LandscapeFrameglasses(ps, p + 1)

\* portraits.append((i, tags))
PortraitItems(ps) == ItemsOfType(ps, "P", 1)

\* main.py, the inner loop over j: best_pair is a position of portraits, 0 for
\* None; the candidate replaces the best only when its union is strictly larger.
RECURSIVE Main_ScanPartner(_, _, _, _, _, _)
Main_ScanPartner(portraits, i, j, used, best_pair, best_tags) ==
  IF j > Len(portraits) THEN [pair |-> best_pair, tags |-> best_tags]
  ELSE IF j \in used
    THEN Main_ScanPartner(portraits, i, j + 1, used, best_pair, best_tags)
  ELSE LET combined_tags == portraits[i][2] \cup portraits[j][2]
       IN  IF Cardinality(combined_tags) > Cardinality(best_tags)
           THEN Main_ScanPartner(portraits, i, j + 1, used, j, combined_tags)
           ELSE Main_ScanPartner(portraits, i, j + 1, used, best_pair, best_tags)

\* main.py, the outer loop over i.
RECURSIVE Main_PairLoop(_, _, _, _)
Main_PairLoop(portraits, i, used, paired) ==
  IF i > Len(portraits) THEN paired
  ELSE IF i \in used THEN Main_PairLoop(portraits, i + 1, used, paired)
  ELSE LET best == Main_ScanPartner(portraits, i, i + 1, used, 0, {})
       IN  IF best.pair # 0
           THEN Main_PairLoop(portraits, i + 1, used \cup {i, best.pair},
                  Append(paired,
                    << <<portraits[i][1], portraits[best.pair][1]>>, best.tags >>))
           ELSE Main_PairLoop(portraits, i + 1, used,
                  Append(paired, << <<portraits[i][1]>>, portraits[i][2] >>))

\* main.py create_frameglasses
Main_create_frameglasses(ps) ==
  LET landscapes == LandscapeFrameglasses(ps, 1)
      portraits == PortraitItems(ps)
  IN  IF portraits = <<>> THEN landscapes
      ELSE landscapes \o Main_PairLoop(portraits, 1, {}, <<>>)

\* items.sort(key=lambda x: len(x[1]), reverse=True): a stable sort, so items
\* of equal tag count keep their order. One insertion of the insertion sort:
\* x goes behind every item with at least as many tags.
InsertByTagCount(sorted, x) ==
  LET n == Cardinality({p \in 1..Len(sorted) :
                          Cardinality(sorted[p][2]) >= Cardinality(x[2])})
  IN  SubSeq(sorted, 1, n) \o <<x>> \o SubSeq(sorted, n + 1, Len(sorted))

\* SortByTagCount left out: the items stay in index order.
SortByTagCount_Skipped(items, sorted) == items

RECURSIVE SortByTagCount(_, _)
SortByTagCount(items, sorted) ==
  IF items = <<>> THEN sorted
  ELSE SortByTagCount(Tail(items), InsertByTagCount(sorted, Head(items)))

\* CM_BestMatch with the last of the greatest unions chosen.
CM_BestMatch_Last(p1, rest) ==
  CHOOSE j \in 1..Len(rest) :
    /\ \A k \in 1..Len(rest) :
         Cardinality(p1[2] \cup rest[k][2]) <= Cardinality(p1[2] \cup rest[j][2])
    /\ \A k \in (j + 1)..Len(rest) :
         Cardinality(p1[2] \cup rest[k][2]) < Cardinality(p1[2] \cup rest[j][2])

\* 10_computable_moments.py, one round of the while loop: the front portrait
\* p1 takes the remaining portrait of greatest union size.
CM_BestMatch(p1, rest) ==
  ArgMaxFirst([j \in 1..Len(rest) |-> Cardinality(p1[2] \cup rest[j][2])])

\* The body of the while loop: p1 = portraits.pop(0), p2 = portraits.pop(best).
CM_Round(portraits, paired) ==
  LET p1 == Head(portraits)
      rest == Tail(portraits)
      best_match_idx == CM_BestMatch(p1, rest)
      p2 == rest[best_match_idx]
  IN  [pool |-> RemoveAt(rest, best_match_idx),
       paired |-> Append(paired, << <<p1[1], p2[1]>>, p1[2] \cup p2[2] >>)]

\* CM_Remaining without its append: the odd portrait out is forgotten.
CM_Remaining_Forgotten(portraits, paired) == paired

\* "Add any remaining portrait": what follows the while loop.
CM_Remaining(portraits, paired) ==
  IF portraits # <<>>
  THEN Append(paired, << <<portraits[1][1]>>, portraits[1][2] >>)
  ELSE paired

RECURSIVE CM_PairLoop(_, _)
CM_PairLoop(portraits, paired) ==
  IF Len(portraits) > 1
  THEN LET r == CM_Round(portraits, paired) IN CM_PairLoop(r.pool, r.paired)
  ELSE CM_Remaining(portraits, paired)

\* 10_computable_moments.py create_frameglasses
CM_create_frameglasses(ps) ==
  LET landscapes == LandscapeFrameglasses(ps, 1)
      portraits == PortraitItems(ps)
  IN  IF portraits = <<>> THEN landscapes
      ELSE landscapes \o CM_PairLoop(SortByTagCount(portraits, <<>>), <<>>)

\* 110_oily_portraits.py fast_pair_portraits, the for loop over items[:50]:
\* best_index is a position of items, 0 for "nothing chosen" (best_pair None);
\* best_score None stands for float('-inf').
RECURSIVE FP_Scan(_, _, _, _, _, _)
FP_Scan(tags1, window, i, used, best_index, best_score) ==
  IF i > Len(window) THEN best_index
  ELSE IF window[i][1] \in used
    THEN FP_Scan(tags1, window, i + 1, used, best_index, best_score)
  ELSE LET union_size == Cardinality(tags1 \cup window[i][2])
           intersection_size == Cardinality(tags1 \cap window[i][2])
           score == union_size - intersection_size
       IN  IF best_index = 0 \/ score > best_score
           THEN FP_Scan(tags1, window, i + 1, used, i, score)
           ELSE FP_Scan(tags1, window, i + 1, used, best_index, best_score)

\* 110_oily_portraits.py fast_pair_portraits, the body of the while loop.
FP_Round(items, used, pairs) ==
  LET idx1 == Head(items)[1]
      tags1 == Head(items)[2]
      rest == Tail(items)
  IN  IF idx1 \in used THEN [pool |-> rest, used |-> used, pairs |-> pairs]
      ELSE LET best_index == FP_Scan(tags1, Prefix(rest, PairWindow), 1, used, 0, 0)
           IN  IF best_index # 0
               THEN [pool |-> RemoveAt(rest, best_index),
                     used |-> used \cup {idx1, rest[best_index][1]},
                     pairs |-> Append(pairs, <<idx1, rest[best_index][1]>>)]
               ELSE [pool |-> rest, used |-> used, pairs |-> Append(pairs, <<idx1>>)]

\* 110_oily_portraits.py fast_pair_portraits, the while loop.
RECURSIVE FP_PairLoop(_, _, _)
FP_PairLoop(items, used, pairs) ==
  IF items = <<>> THEN pairs
  ELSE LET r == FP_Round(items, used, pairs) IN FP_PairLoop(r.pool, r.used, r.pairs)

\* 110_oily_portraits.py fast_pair_portraits, on the items of a dictionary.
fast_pair_portraits(items) == FP_PairLoop(SortByTagCount(items, <<>>), {}, <<>>)

\* 11_randomizing_paintings.py pair_portraits, the inner loop over j:
\* best_pair is a position of items, 0 for None; best_score starts at -1.
RECURSIVE PP_Scan(_, _, _, _, _, _)
PP_Scan(items, i, j, used, best_pair, best_score) ==
  IF j > Len(items) THEN best_pair
  ELSE IF items[j][1] \in used \/ items[i][1] = items[j][1]
    THEN PP_Scan(items, i, j + 1, used, best_pair, best_score)
  ELSE LET common == Cardinality(items[i][2] \cap items[j][2])
           diversity == Cardinality(items[i][2] \cup items[j][2])
           score == diversity - common
       IN  IF score > best_score
           THEN PP_Scan(items, i, j + 1, used, j, score)
           ELSE PP_Scan(items, i, j + 1, used, best_pair, best_score)

\* 11_randomizing_paintings.py pair_portraits, the outer loop over i.
RECURSIVE PP_PairLoop(_, _, _, _)
PP_PairLoop(items, i, used, paired) ==
  IF i > Len(items) THEN paired
  ELSE IF items[i][1] \in used THEN PP_PairLoop(items, i + 1, used, paired)
  ELSE LET best_pair == PP_Scan(items, i, 1, used, 0, 0 - 1)
       IN  IF best_pair # 0
           THEN PP_PairLoop(items, i + 1, used \cup {items[i][1], items[best_pair][1]},
                  Append(paired, <<items[i][1], items[best_pair][1]>>))
           ELSE PP_PairLoop(items, i + 1, used, Append(paired, <<items[i][1]>>))

pair_portraits(items) == PP_PairLoop(items, 1, {}, <<>>)

\* A Python set of strings is iterated in an order its hashes fix, which differs
\* from run to run (hash randomisation): TagOrders are the orders a run may see.
TagOrders == {o \in [1..Cardinality(Tags) -> Tags] : Range(o) = Tags}

\* The tags of one set in iteration order.
RECURSIVE IterateTags(_, _, _)
IterateTags(tags, order, p) ==
  IF p > Len(order) THEN <<>>
  ELSE (IF order[p] \in tags THEN <<order[p]>> ELSE <<>>)
       \o IterateTags(tags, order, p + 1)

\* Counter(tag for tags in paintings.values() for tag in tags).keys(): the
\* tags in the order they are first met.
RECURSIVE CounterKeys(_, _, _)
CounterKeys(items, order, keys) ==
  IF items = <<>> THEN keys
  ELSE LET fresh == SelectSeq(IterateTags(Head(items)[2], order, 1),
                              LAMBDA t : t \notin Range(keys))
       IN  CounterKeys(Tail(items), order, keys \o fresh)

\* tag_frequencies[tag]
TagFrequency(items, tag) == Cardinality({p \in 1..Len(items) : tag \in items[p][2]})

\* sorted(keys, key=frequency): stable, ascending. One insertion: the tag
\* goes behind every tag that is at most as frequent.
InsertByFrequency(items, sorted, tag) ==
  LET n == Cardinality({p \in 1..Len(sorted) :
                          TagFrequency(items, sorted[p]) <= TagFrequency(items, tag)})
  IN  SubSeq(sorted, 1, n) \o <<tag>> \o SubSeq(sorted, n + 1, Len(sorted))

RECURSIVE SortByFrequency(_, _, _)
SortByFrequency(items, keys, sorted) ==
  IF keys = <<>> THEN sorted
  ELSE SortByFrequency(items, Tail(keys), InsertByFrequency(items, sorted, Head(keys)))

\* tag_to_paintings[tag]: the indices of the paintings holding the tag, in
\* index order.
TagToPaintings(items, tag) ==
  LET holders == SelectSeq(items, LAMBDA it : tag \in it[2])
  IN  [p \in 1..Len(holders) |-> holders[p][1]]

\* The inner loop of arrange_landscapes_by_rare_tags over one tag's paintings.
RECURSIVE AL_TakeTag(_, _)
AL_TakeTag(idxs, arranged) ==
  IF idxs = <<>> THEN arranged
  ELSE IF <<Head(idxs)>> \in Range(arranged) THEN AL_TakeTag(Tail(idxs), arranged)
  ELSE AL_TakeTag(Tail(idxs), Append(arranged, <<Head(idxs)>>))

\* The outer loop of arrange_landscapes_by_rare_tags over rare_tags.
RECURSIVE AL_Loop(_, _, _)
AL_Loop(items, rare_tags, arranged) ==
  IF rare_tags = <<>> THEN arranged
  ELSE AL_Loop(items, Tail(rare_tags),
               AL_TakeTag(TagToPaintings(items, Head(rare_tags)), arranged))

\* 11_randomizing_paintings.py arrange_landscapes_by_rare_tags
arrange_landscapes_by_rare_tags(items, order) ==
  AL_Loop(items, SortByFrequency(items, CounterKeys(items, order, <<>>), <<>>), <<>>)

\* ------------------------------------------------------ Sequence Optimizer

\* 10_computable_moments.py optimize_sequence, the while loop:
\* best_next = max(frameglasses, key=score against the tail), then
\* frameglasses.remove(best_next).
OS_BestNext(current_tags, frameglasses) ==
  frameglasses[ArgMaxFirst([j \in 1..Len(frameglasses) |->
                  calculate_local_satisfaction(current_tags, frameglasses[j][2])])]

\* OS_Loop with frameglasses.pop(0) in place of frameglasses.remove(best_next).
RECURSIVE OS_Loop_PopHead(_, _)
OS_Loop_PopHead(frameglasses, sequence) ==
  IF frameglasses = <<>> THEN sequence
  ELSE LET current_tags == sequence[Len(sequence)][2]
           best_next == OS_BestNext(current_tags, frameglasses)
       IN  OS_Loop_PopHead(Tail(frameglasses), Append(sequence, best_next))

RECURSIVE OS_Loop(_, _)
OS_Loop(frameglasses, sequence) ==
  IF frameglasses = <<>> THEN sequence
  ELSE LET current_tags == sequence[Len(sequence)][2]
           best_next == OS_BestNext(current_tags, frameglasses)
       IN  OS_Loop(RemoveFirst(frameglasses, best_next), Append(sequence, best_next))

\* optimize_sequence of a non-empty list (pop(0) of an empty one raises).
optimize_sequence(frameglasses) == OS_Loop(Tail(frameglasses), <<Head(frameglasses)>>)

\* main.py optimize_chunk, the for loop over remaining: best_next is a
\* position of remaining (0 for None), best_score starts at -1.
\* OC_Scan with "score >= best_score": the last of the best candidates wins.
RECURSIVE OC_Scan_LastWins(_, _, _, _, _)
OC_Scan_LastWins(current_tags, remaining, i, best_next, best_score) ==
  IF i > Len(remaining) THEN best_next
  ELSE LET score == calculate_local_satisfaction(current_tags, remaining[i][2])
       IN  IF score >= best_score
           THEN OC_Scan_LastWins(current_tags, remaining, i + 1, i, score)
           ELSE OC_Scan_LastWins(current_tags, remaining, i + 1, best_next, best_score)

RECURSIVE OC_Scan(_, _, _, _, _)
OC_Scan(current_tags, remaining, i, best_next, best_score) ==
  IF i > Len(remaining) THEN best_next
  ELSE LET score == calculate_local_satisfaction(current_tags, remaining[i][2])
       IN  IF score > best_score
           THEN OC_Scan(current_tags, remaining, i + 1, i, score)
           ELSE OC_Scan(current_tags, remaining, i + 1, best_next, best_score)

\* The position of remaining that one iteration of the while loop pops.
OC_BestNext(sequence, remaining) ==
  OC_Scan(sequence[Len(sequence)][2], remaining, 1, 0, 0 - 1)

RECURSIVE OC_Loop(_, _)
OC_Loop(remaining, sequence) ==
  IF remaining = <<>> THEN sequence
  ELSE LET best_next == OC_BestNext(sequence, remaining)
       IN  OC_Loop(RemoveAt(remaining, best_next), Append(sequence, remaining[best_next]))

\* optimize_chunk of a non-empty chunk.
optimize_chunk(chunk) == OC_Loop(Tail(chunk), <<Head(chunk)>>)

\* 110_oily_portraits.py greedy_arrangement, the for loop over
\* glassframes[:100]: best_index 0 is "best_pair is None", and the first
\* candidate always beats float('-inf').
\* GA_Scan with best_score starting at 0 instead of float('-inf'): a candidate
\* has to score above 0 to be taken.
RECURSIVE GA_Scan_FromZero(_, _, _, _, _, _)
GA_Scan_FromZero(current_tags, window, cache, i, best_index, best_score) ==
  IF i > Len(window) THEN best_index
  ELSE LET score == calculate_local_satisfaction(current_tags, FrameTags(window[i], cache))
       IN  IF score > best_score
           THEN GA_Scan_FromZero(current_tags, window, cache, i + 1, i, score)
           ELSE GA_Scan_FromZero(current_tags, window, cache, i + 1, best_index, best_score)

RECURSIVE GA_Scan(_, _, _, _, _, _)
GA_Scan(current_tags, window, cache, i, best_index, best_score) ==
  IF i > Len(window) THEN best_index
  ELSE LET score == calculate_local_satisfaction(current_tags, FrameTags(window[i], cache))
       IN  IF best_index = 0 \/ score > best_score
           THEN GA_Scan(current_tags, window, cache, i + 1, i, score)
           ELSE GA_Scan(current_tags, window, cache, i + 1, best_index, best_score)

RECURSIVE GA_Loop(_, _, _)
GA_Loop(glassframes, arranged_frames, cache) ==
  IF glassframes = <<>> THEN arranged_frames
  ELSE LET current_tags == FrameTags(arranged_frames[Len(arranged_frames)], cache)
           best_index == GA_Scan(current_tags, Prefix(glassframes, ArrangeWindow),
                                 cache, 1, 0, 0)
       IN  IF best_index # 0
           THEN GA_Loop(RemoveAt(glassframes, best_index),
                        Append(arranged_frames, glassframes[best_index]), cache)
           ELSE GA_Loop(Tail(glassframes),
                        Append(arranged_frames, Head(glassframes)), cache)

\* greedy_arrangement of a non-empty list.
greedy_arrangement(glassframes, cache) ==
  GA_Loop(Tail(glassframes), <<Head(glassframes)>>, cache)

\* 11_randomizing_paintings.py fast_greedy: the heap holds (score, frame) with
\* score the negated satisfaction against the tail, and heappop returns the
\* least tuple: least score first, then the least frame as Python orders lists.
HeapLess(e1, e2) == e1[1] < e2[1] \/ (e1[1] = e2[1] /\ ListLess(e1[2], e2[2]))

\* A pop that takes, of the candidates with the best score, the one met last.
FG_HeapPop_LastMet(current_tags, frames, cache) ==
  LET sat(p) == calculate_local_satisfaction(current_tags, FrameTags(frames[p], cache))
      top == CHOOSE p \in 1..Len(frames) :
               /\ \A q \in 1..Len(frames) : sat(q) <= sat(p)
               /\ \A q \in (p + 1)..Len(frames) : sat(q) < sat(p)
  IN  frames[top]

FG_HeapPop(current_tags, frames, cache) ==
  LET heap == [p \in 1..Len(frames) |->
                 << 0 - calculate_local_satisfaction(current_tags, FrameTags(frames[p], cache)),
                    frames[p] >>]
      top == CHOOSE p \in 1..Len(heap) : \A q \in 1..Len(heap) : ~HeapLess(heap[q], heap[p])
  IN  heap[top][2]

RECURSIVE FG_Loop(_, _, _)
FG_Loop(frames, ordered, cache) ==
  IF frames = <<>> THEN ordered
  ELSE LET current_tags == FrameTags(ordered[Len(ordered)], cache)
           best_frame == FG_HeapPop(current_tags, frames, cache)
       IN  FG_Loop(RemoveFirst(frames, best_frame), Append(ordered, best_frame), cache)

\* fast_greedy of a non-empty list.
fast_greedy(frames, cache) == FG_Loop(Tail(frames), <<Head(frames)>>, cache)

\* frames[i:i + batch_size] for i in range(0, len(frames), batch_size)
RECURSIVE Slices(_, _)
Slices(s, size) ==
  IF s = <<>> THEN <<>>
  ELSE <<Prefix(s, size)>> \o Slices(SubSeq(s, Min2(size, Len(s)) + 1, Len(s)), size)

\* batch_processing, the while loop over ordered_batches: the first batch is
\* taken as ordered, every later one goes through fast_greedy once more.
RECURSIVE BP_Merge(_, _, _)
BP_Merge(ordered_batches, final_sequence, cache) ==
  IF ordered_batches = <<>> THEN final_sequence
  ELSE LET current_batch == Head(ordered_batches)
       IN  IF final_sequence = <<>>
           THEN BP_Merge(Tail(ordered_batches), final_sequence \o current_batch, cache)
           ELSE BP_Merge(Tail(ordered_batches),
                         final_sequence \o fast_greedy(current_batch, cache), cache)

\* 11_randomizing_paintings.py batch_processing
batch_processing(frames, cache, batch_size) ==
  LET batches == Slices(frames, batch_size)
      ordered_batches == [b \in 1..Len(batches) |-> fast_greedy(batches[b], cache)]
  IN  BP_Merge(ordered_batches, <<>>, cache)

\* merge_chunks taking the chunks last to first.
RECURSIVE merge_chunks_Reversed(_)
merge_chunks_Reversed(cs) ==
  IF cs = <<>> THEN <<>> ELSE merge_chunks_Reversed(Tail(cs)) \o Head(cs)

\* main.py merge_chunks
RECURSIVE merge_chunks(_)
merge_chunks(cs) ==
  IF cs = <<>> THEN <<>> ELSE Head(cs) \o merge_chunks(Tail(cs))

\* 1_binary_landscapes.py read_input, the tag-to-painting map: for every tag
\* of the file, the paintings holding it, in file order.
tag_to_paintings(ps) ==
  [tag \in UNION {ps[p].tags : p \in 1..Len(ps)} |->
     LET holders == SelectSeq([p \in 1..Len(ps) |-> p], LAMBDA p : tag \in ps[p].tags)
     IN  [q \in 1..Len(holders) |-> holders[q] - 1]]

\* 1_binary_landscapes.py construct_graph: an edge for every tag that exactly
\* two paintings hold; only the ends of an edge become keys of the graph.
construct_graph(t2p) ==
  LET edges == {<<t2p[tag][1], t2p[tag][2]>> :
                  tag \in {t \in DOMAIN t2p : Len(t2p[t]) = 2}}
      nodes == {e[1] : e \in edges} \cup {e[2] : e \in edges}
  IN  [n \in nodes |-> {e[2] : e \in {d \in edges : d[1] = n}}
                        \cup {e[1] : e \in {d \in edges : d[2] = n}}]

\* The orders in which a for loop may meet the elements of a set.
SetOrders(S) ==
  {o \in [1..Cardinality(S) -> S] : \A i, j \in 1..Cardinality(S) : o[i] = o[j] => i = j}

\* read_input of the pandas scripts raises on a data line without tags: the
\* line splits into two parts, so its Tags cell is None and set(x.split())
\* fails (when no line has tags the DataFrame constructor already fails, the
\* data being a column short).
read_input_raises(ps) == \E p \in 1..Len(ps) : ps[p].tags = {}

\* ------------------------------------------------------------------ state

VARIABLES
  paintings,         \* the parsed input: the list of (type, tags)
  pc,                \* where the running script stands
  error,             \* the exception that ended the script, "none" otherwise
  score,             \* <<score>> once the score is calculated, <<>> before
  frameglasses,      \* main.py, 10_: the list create_frameglasses returned
  chunk_size,        \* main.py: process_data's chunk_size
  chunks,            \* main.py: the chunks handed to pool.map
  workers,           \* main.py: per chunk, the state of the optimize_chunk call
  optimized_chunks,  \* main.py: per chunk, the result pool.map collects
  sequence,          \* main.py, 10_: the optimized sequence
  frames,            \* 110_, 11_: the frames before ordering
  arranged,          \* 110_, 11_: the ordered frames
  cm_pool,           \* pairing rounds of 10_: the portraits not yet paired
  cm_paired,         \* pairing rounds of 10_: paired_portraits
  fp_pool,           \* pairing rounds of 110_: items
  fp_used,           \* pairing rounds of 110_: used
  fp_pairs,          \* pairing rounds of 110_: pairs
  graph,             \* 1_: the graph construct_graph returned
  visited,           \* 1_: the visited set all traversals share
  painting,          \* 1_: the for loop's painting
  stack,             \* 1_: traverse_graph's stack
  tg_sequence,       \* 1_: traverse_graph's sequence
  sequences,         \* 1_: the frames collected so far
  cls_tags1,         \* a call of calculate_local_satisfaction: its first tag set
  cls_tags2,         \* its second tag set
  cls_forward,       \* <<calculate_local_satisfaction(tags1, tags2)>> once called
  cls_backward,      \* <<calculate_local_satisfaction(tags2, tags1)>> once called
  batch_size,        \* 11_: batch_processing's batch_size
  ordered_batches    \* 11_: batch_processing's ordered_batches

vars == <<paintings, pc, error, score, frameglasses, chunk_size, chunks, workers,
          optimized_chunks, sequence, frames, arranged,
          cm_pool, cm_paired, fp_pool, fp_used, fp_pairs,
          graph, visited, painting, stack, tg_sequence, sequences,
          cls_tags1, cls_tags2, cls_forward, cls_backward,
          batch_size, ordered_batches>>

poolVars == <<chunk_size, chunks, workers, optimized_chunks>>

pandasVars == <<frames, arranged>>

pairingVars == <<cm_pool, cm_paired, fp_pool, fp_used, fp_pairs>>

graphVars == <<graph, visited, painting, stack, tg_sequence, sequences>>

scorerVars == <<cls_tags1, cls_tags2, cls_forward, cls_backward>>

batchVars == <<batch_size, ordered_batches>>

InitScripts ==
  /\ pc = "start"
  /\ error = "none"
  /\ score = <<>>
  /\ frameglasses = <<>>
  /\ chunk_size = 0
  /\ chunks = <<>>
  /\ workers = <<>>
  /\ optimized_chunks = <<>>
  /\ sequence = <<>>
  /\ frames = <<>>
  /\ arranged = <<>>
  /\ cm_pool = <<>>
  /\ cm_paired = <<>>
  /\ fp_pool = <<>>
  /\ fp_used = {}
  /\ fp_pairs = <<>>
  /\ graph = <<>>
  /\ visited = {}
  /\ painting = 0
  /\ stack = <<>>
  /\ tg_sequence = <<>>
  /\ sequences = <<>>
  /\ batch_size = 0
  /\ ordered_batches = <<>>

\* No call of the scorer is followed.
InitRest ==
  /\ InitScripts
  /\ cls_tags1 = {}
  /\ cls_tags2 = {}
  /\ cls_forward = <<>>
  /\ cls_backward = <<>>

\* Any input file of at most MaxPaintings lines, parsed.
Init == paintings \in Inputs /\ InitRest

\* --------------------------------------------------- main.py process_data

\* Step 2: frameglasses = create_frameglasses(paintings)
Main_CreateFrameglasses ==
  /\ pc = "start"
  /\ frameglasses' = Main_create_frameglasses(paintings)
  /\ pc' = "main_built"
  /\ UNCHANGED <<paintings, scorerVars, batchVars, graphVars, error, score, sequence>>
  /\ UNCHANGED <<poolVars, pandasVars, pairingVars>>

\* Step 3: if not frameglasses: print(...); return
Main_ExitEmpty ==
  /\ pc = "main_built"
  /\ frameglasses = <<>>
  /\ pc' = "main_exit"
  /\ UNCHANGED <<paintings, scorerVars, batchVars, graphVars, error, score, frameglasses, sequence>>
  /\ UNCHANGED <<poolVars, pandasVars, pairingVars>>

\* Step 4: chunks = [frameglasses[i:i + chunk_size] ...], and pool.map queues
\* one optimize_chunk task per chunk.
Main_DivideChunks ==
  /\ pc = "main_built"
  /\ frameglasses # <<>>
  /\ \E cs \in 1..MaxChunkSize :
       /\ chunk_size' = cs
       /\ chunks' = Slices(frameglasses, cs)
  /\ workers' = [k \in 1..Len(chunks') |->
                   [state |-> "queued", remaining |-> <<>>, sequence |-> <<>>]]
  /\ optimized_chunks' = [k \in 1..Len(chunks') |-> <<>>]
  /\ pc' = "main_map"
  /\ UNCHANGED <<paintings, scorerVars, batchVars, graphVars, error, score, frameglasses, sequence>>
  /\ UNCHANGED <<pandasVars, pairingVars>>

\* A free pool process takes chunk k: it works on its own copy,
\* remaining = chunk[:]; sequence = [remaining.pop(0)].
Worker_TakeChunk(k) ==
  /\ pc = "main_map"
  /\ workers[k].state = "queued"
  /\ Cardinality({j \in 1..Len(workers) : workers[j].state = "running"}) < NumProcesses
  /\ workers' = [workers EXCEPT ![k] = [state |-> "running",
                                        remaining |-> Tail(chunks[k]),
                                        sequence |-> <<Head(chunks[k])>>]]
  /\ UNCHANGED <<paintings, scorerVars, batchVars, graphVars, pc, error, score, frameglasses, sequence>>
  /\ UNCHANGED <<chunk_size, chunks, optimized_chunks, pandasVars, pairingVars>>

\* One iteration of optimize_chunk's while loop in the process holding chunk k.
Worker_Step(k) ==
  /\ pc = "main_map"
  /\ workers[k].state = "running"
  /\ workers[k].remaining # <<>>
  /\ LET w == workers[k]
         best_next == OC_BestNext(w.sequence, w.remaining)
     IN  workers' = [workers EXCEPT ![k] =
                       [state |-> "running",
                        remaining |-> RemoveAt(w.remaining, best_next),
                        sequence |-> Append(w.sequence, w.remaining[best_next])]]
  /\ UNCHANGED <<paintings, scorerVars, batchVars, graphVars, pc, error, score, frameglasses, sequence>>
  /\ UNCHANGED <<chunk_size, chunks, optimized_chunks, pandasVars, pairingVars>>

\* optimize_chunk returns: pool.map stores the result at the chunk's position.
Worker_Return(k) ==
  /\ pc = "main_map"
  /\ workers[k].state = "running"
  /\ workers[k].remaining = <<>>
  /\ workers' = [workers EXCEPT ![k].state = "done"]
  /\ optimized_chunks' = [optimized_chunks EXCEPT ![k] = workers[k].sequence]
  /\ UNCHANGED <<paintings, scorerVars, batchVars, graphVars, pc, error, score, frameglasses, sequence>>
  /\ UNCHANGED <<chunk_size, chunks, pandasVars, pairingVars>>

\* Step 6: pool.map has returned every result;
\* optimized_sequence = merge_chunks(optimized_chunks)
Main_MergeChunks ==
  /\ pc = "main_map"
  /\ \A k \in 1..Len(workers) : workers[k].state = "done"
  /\ sequence' = merge_chunks(optimized_chunks)
  /\ pc' = "main_merged"
  /\ UNCHANGED <<paintings, scorerVars, batchVars, graphVars, error, score, frameglasses>>
  /\ UNCHANGED <<poolVars, pandasVars, pairingVars>>

\* Step 7: score = calculate_global_score(optimized_sequence)
Main_CalculateScore ==
  /\ pc = "main_merged"
  /\ score' = <<calculate_global_score(sequence)>>
  /\ pc' = "main_done"
  /\ UNCHANGED <<paintings, scorerVars, batchVars, graphVars, error, frameglasses, sequence>>
  /\ UNCHANGED <<poolVars, pandasVars, pairingVars>>

\* ------------------------------------ 10_computable_moments.py process_data

\* Step 2: frameglasses = create_frameglasses(paintings)
CM_CreateFrameglasses ==
  /\ pc = "start"
  /\ frameglasses' = CM_create_frameglasses(paintings)
  /\ pc' = "cm_built"
  /\ UNCHANGED <<paintings, scorerVars, batchVars, graphVars, error, score, sequence>>
  /\ UNCHANGED <<poolVars, pandasVars, pairingVars>>

\* Step 3: optimize_sequence(frameglasses) empties the list it is given;
\* frameglasses.pop(0) of an empty list raises IndexError.
CM_OptimizeSequence ==
  /\ pc = "cm_built"
  /\ IF frameglasses = <<>>
     THEN /\ error' = "IndexError"
          /\ pc' = "cm_error"
          /\ UNCHANGED <<frameglasses, sequence>>
     ELSE /\ sequence' = optimize_sequence(frameglasses)
          /\ frameglasses' = <<>>
          /\ pc' = "cm_sequenced"
          /\ UNCHANGED error
  /\ UNCHANGED <<paintings, scorerVars, batchVars, graphVars, score>>
  /\ UNCHANGED <<poolVars, pandasVars, pairingVars>>

\* Step 4: score = calculate_global_score(optimized_sequence)
CM_CalculateScore ==
  /\ pc = "cm_sequenced"
  /\ score' = <<calculate_global_score(sequence)>>
  /\ pc' = "cm_done"
  /\ UNCHANGED <<paintings, scorerVars, batchVars, graphVars, error, frameglasses, sequence>>
  /\ UNCHANGED <<poolVars, pandasVars, pairingVars>>

\* ------------- 110_oily_portraits.py process_file_with_fast_optimization

\* Steps 1-3: read_input, then fast_pair_portraits on every index of the frame.
OP_PairPortraits ==
  /\ pc = "start"
  /\ IF read_input_raises(paintings)
     THEN /\ error' = "ReadInputError"
          /\ pc' = "op_error"
          /\ UNCHANGED frames
     ELSE /\ frames' = fast_pair_portraits(AllItems(paintings))
          /\ pc' = "op_paired"
          /\ UNCHANGED error
  /\ UNCHANGED <<paintings, scorerVars, batchVars, graphVars, score, frameglasses, sequence, arranged>>
  /\ UNCHANGED <<poolVars, pairingVars>>

\* Step 4: greedy_arrangement(paired_frames, tags_cache) empties paired_frames;
\* glassframes.pop(0) of an empty list raises IndexError.
OP_GreedyArrangement ==
  /\ pc = "op_paired"
  /\ IF frames = <<>>
     THEN /\ error' = "IndexError"
          /\ pc' = "op_error"
          /\ UNCHANGED <<frames, arranged>>
     ELSE /\ arranged' = greedy_arrangement(frames, TagsCache(paintings))
          /\ frames' = <<>>
          /\ pc' = "op_arranged"
          /\ UNCHANGED error
  /\ UNCHANGED <<paintings, scorerVars, batchVars, graphVars, score, frameglasses, sequence>>
  /\ UNCHANGED <<poolVars, pairingVars>>

\* Step 5: score = calculate_score(arranged_frames, tags_cache)
OP_CalculateScore ==
  /\ pc = "op_arranged"
  /\ score' = <<calculate_score(arranged, TagsCache(paintings))>>
  /\ pc' = "op_done"
  /\ UNCHANGED <<paintings, scorerVars, batchVars, graphVars, error, frameglasses, sequence>>
  /\ UNCHANGED <<poolVars, pandasVars, pairingVars>>

\* greedy_arrangement, step by step. The function works on the list it is
\* given, so frames is glassframes and arranged is arranged_frames.

\* arranged_frames = [glassframes.pop(0)]
GA_Enter ==
  /\ pc = "op_paired"
  /\ IF frames = <<>>
     THEN /\ error' = "IndexError"
          /\ pc' = "op_error"
          /\ UNCHANGED <<frames, arranged>>
     ELSE /\ arranged' = <<Head(frames)>>
          /\ frames' = Tail(frames)
          /\ pc' = "op_arranging"
          /\ UNCHANGED error
  /\ UNCHANGED <<paintings, scorerVars, batchVars, graphVars, score, frameglasses, sequence>>
  /\ UNCHANGED <<poolVars, pairingVars>>

\* The position of glassframes[:100] the for loop leaves in best_pair, 0 for None.
GA_BestIndex ==
  GA_Scan(FrameTags(arranged[Len(arranged)], TagsCache(paintings)),
          Prefix(frames, ArrangeWindow), TagsCache(paintings), 1, 0, 0)

\* One iteration of the while loop: append best_pair and remove it, or
\* append glassframes.pop(0) when best_pair is None.
GA_Iterate ==
  /\ pc = "op_arranging"
  /\ frames # <<>>
  /\ IF GA_BestIndex # 0
     THEN /\ arranged' = Append(arranged, frames[GA_BestIndex])
          /\ frames' = RemoveAt(frames, GA_BestIndex)
     ELSE /\ arranged' = Append(arranged, Head(frames))
          /\ frames' = Tail(frames)
  /\ UNCHANGED <<paintings, scorerVars, batchVars, graphVars, pc, error, score, frameglasses, sequence>>
  /\ UNCHANGED <<poolVars, pairingVars>>

\* The while loop ends on the empty list: return arranged_frames
GA_Return ==
  /\ pc = "op_arranging"
  /\ frames = <<>>
  /\ pc' = "op_arranged"
  /\ UNCHANGED <<paintings, scorerVars, batchVars, graphVars, error, score, frameglasses, sequence>>
  /\ UNCHANGED <<poolVars, pandasVars, pairingVars>>

\* --------- 11_randomizing_paintings.py process_file_with_optimizations

\* Steps 1-5: read_input, pair_portraits on the portraits,
\* arrange_landscapes_by_rare_tags on the landscapes,
\* all_frames = portrait_frames + landscape_frames.
RP_BuildFrames ==
  /\ pc = "start"
  /\ IF read_input_raises(paintings)
     THEN /\ error' = "ReadInputError"
          /\ pc' = "rp_error"
          /\ UNCHANGED frames
     ELSE /\ \E order \in TagOrders :
               frames' = pair_portraits(ItemsOfType(paintings, "P", 1))
                         \o arrange_landscapes_by_rare_tags(
                              ItemsOfType(paintings, "L", 1), order)
          /\ pc' = "rp_framed"
          /\ UNCHANGED error
  /\ UNCHANGED <<paintings, scorerVars, batchVars, graphVars, score, frameglasses, sequence, arranged>>
  /\ UNCHANGED <<poolVars, pairingVars>>

\* Step 5: ordered_frames = batch_processing(all_frames, tags_cache, batch_size=100)
RP_BatchProcessing ==
  /\ pc = "rp_framed"
  /\ arranged' = batch_processing(frames, TagsCache(paintings), BatchSize)
  /\ pc' = "rp_ordered"
  /\ UNCHANGED <<paintings, scorerVars, batchVars, graphVars, error, score, frameglasses, sequence, frames>>
  /\ UNCHANGED <<poolVars, pairingVars>>

\* Step 6: score = calculate_score(ordered_frames, tags_cache)
RP_CalculateScore ==
  /\ pc = "rp_ordered"
  /\ score' = <<calculate_score(arranged, TagsCache(paintings))>>
  /\ pc' = "rp_done"
  /\ UNCHANGED <<paintings, scorerVars, batchVars, graphVars, error, frameglasses, sequence>>
  /\ UNCHANGED <<poolVars, pandasVars, pairingVars>>

\* batch_processing, step by step, called with any batch_size.

\* batches = [frames[i:i + batch_size] ...]; every batch goes through
\* fast_greedy into ordered_batches; final_sequence = []
BP_OrderBatches ==
  /\ pc = "rp_framed"
  /\ \E size \in 1..MaxBatchSize :
       /\ batch_size' = size
       /\ ordered_batches' =
            LET batches == Slices(frames, size)
            IN  [b \in 1..Len(batches) |-> fast_greedy(batches[b], TagsCache(paintings))]
  /\ arranged' = <<>>
  /\ pc' = "bp_merging"
  /\ UNCHANGED <<paintings, error, score, frameglasses, sequence, frames>>
  /\ UNCHANGED <<poolVars, pairingVars, graphVars, scorerVars>>

\* One iteration of the while loop: current_batch = ordered_batches.pop(0)
\* extends final_sequence, as it is when final_sequence is empty and through
\* fast_greedy otherwise.
BP_MergeNext ==
  /\ pc = "bp_merging"
  /\ ordered_batches # <<>>
  /\ LET current_batch == Head(ordered_batches)
     IN  arranged' = IF arranged = <<>>
                     THEN current_batch
                     ELSE arranged \o fast_greedy(current_batch, TagsCache(paintings))
  /\ ordered_batches' = Tail(ordered_batches)
  /\ UNCHANGED <<paintings, pc, error, score, frameglasses, sequence, frames, batch_size>>
  /\ UNCHANGED <<poolVars, pairingVars, graphVars, scorerVars>>

\* return final_sequence
BP_Return ==
  /\ pc = "bp_merging"
  /\ ordered_batches = <<>>
  /\ pc' = "rp_ordered"
  /\ UNCHANGED <<paintings, error, score, frameglasses, sequence>>
  /\ UNCHANGED <<poolVars, pandasVars, pairingVars, graphVars, scorerVars, batchVars>>

\* ------------- 1_binary_landscapes.py process_landscapes_with_graph

\* Step 1: read_input
BL_ReadInput ==
  /\ pc = "start"
  /\ IF read_input_raises(paintings)
     THEN error' = "ReadInputError" /\ pc' = "bl_error"
     ELSE pc' = "bl_read" /\ UNCHANGED error
  /\ UNCHANGED <<paintings, scorerVars, batchVars, score, frameglasses, sequence, graphVars>>
  /\ UNCHANGED <<poolVars, pandasVars, pairingVars>>

\* Steps 2-3: graph = construct_graph(tag_to_paintings); visited = set();
\* sequences = []
BL_ConstructGraph ==
  /\ pc = "bl_read"
  /\ graph' = construct_graph(tag_to_paintings(paintings))
  /\ visited' = {}
  /\ sequences' = <<>>
  /\ painting' = 0
  /\ pc' = "bl_for"
  /\ UNCHANGED <<paintings, scorerVars, batchVars, error, score, frameglasses, sequence, stack, tg_sequence>>
  /\ UNCHANGED <<poolVars, pandasVars, pairingVars>>

\* for painting in range(num_paintings): a visited painting is passed over,
\* any other starts traverse_graph with sequence = [] and stack = [start].
BL_ForPainting ==
  /\ pc = "bl_for"
  /\ painting < Len(paintings)
  /\ IF painting \in visited
     THEN /\ painting' = painting + 1
          /\ UNCHANGED <<pc, stack, tg_sequence>>
     ELSE /\ stack' = <<painting>>
          /\ tg_sequence' = <<>>
          /\ pc' = "bl_traverse"
          /\ UNCHANGED painting
  /\ UNCHANGED <<paintings, scorerVars, batchVars, error, score, frameglasses, sequence>>
  /\ UNCHANGED <<graph, visited, sequences>>
  /\ UNCHANGED <<poolVars, pandasVars, pairingVars>>

\* One iteration of traverse_graph's while loop. graph[current] raises
\* KeyError for a painting that is no key of the graph; the neighbours are
\* pushed in the order the set yields them.
BL_TraverseStep ==
  /\ pc = "bl_traverse"
  /\ stack # <<>>
  /\ LET current == stack[Len(stack)]
         popped == SubSeq(stack, 1, Len(stack) - 1)
     IN  IF current \in visited
         THEN /\ stack' = popped
              /\ UNCHANGED <<pc, error, visited, tg_sequence>>
         ELSE /\ visited' = visited \cup {current}
              /\ tg_sequence' = Append(tg_sequence, <<current>>)
              /\ IF current \in DOMAIN graph
                 THEN /\ \E order \in SetOrders(graph[current] \ visited') :
                           stack' = popped \o order
                      /\ UNCHANGED <<pc, error>>
                 ELSE /\ error' = "KeyError"
                      /\ pc' = "bl_error"
                      /\ stack' = popped
  /\ UNCHANGED <<paintings, scorerVars, batchVars, score, frameglasses, sequence>>
  /\ UNCHANGED <<graph, painting, sequences>>
  /\ UNCHANGED <<poolVars, pandasVars, pairingVars>>

\* The stack is empty: traverse_graph returns and
\* sequences.extend(...) takes what it collected.
BL_TraverseReturn ==
  /\ pc = "bl_traverse"
  /\ stack = <<>>
  /\ sequences' = sequences \o tg_sequence
  /\ painting' = painting + 1
  /\ pc' = "bl_for"
  /\ UNCHANGED <<paintings, scorerVars, batchVars, error, score, frameglasses, sequence>>
  /\ UNCHANGED <<graph, visited, stack, tg_sequence>>
  /\ UNCHANGED <<poolVars, pandasVars, pairingVars>>

\* Step 4: score = calculate_score(sequences, tags_cache)
BL_CalculateScore ==
  /\ pc = "bl_for"
  /\ painting = Len(paintings)
  /\ score' = <<calculate_score(sequences, TagsCache(paintings))>>
  /\ pc' = "bl_done"
  /\ UNCHANGED <<paintings, scorerVars, batchVars, error, frameglasses, sequence, graphVars>>
  /\ UNCHANGED <<poolVars, pandasVars, pairingVars>>

\* --------------------------------- calls of calculate_local_satisfaction

\* score = calculate_local_satisfaction(tags1, tags2): the function builds
\* tags1 & tags2, tags1 - tags2 and tags2 - tags1 as new sets and assigns to
\* neither argument.
Scorer_Call ==
  /\ cls_forward = <<>>
  /\ cls_forward' = <<calculate_local_satisfaction(cls_tags1, cls_tags2)>>
  /\ UNCHANGED <<paintings, pc, error, score, frameglasses, sequence>>
  /\ UNCHANGED <<cls_tags1, cls_tags2, cls_backward>>
  /\ UNCHANGED <<poolVars, pandasVars, pairingVars, graphVars, batchVars>>

\* The same call with the arguments exchanged.
Scorer_CallSwapped ==
  /\ cls_backward = <<>>
  /\ cls_backward' = <<calculate_local_satisfaction(cls_tags2, cls_tags1)>>
  /\ UNCHANGED <<paintings, pc, error, score, frameglasses, sequence>>
  /\ UNCHANGED <<cls_tags1, cls_tags2, cls_forward>>
  /\ UNCHANGED <<poolVars, pandasVars, pairingVars, graphVars, batchVars>>

\* Any two tag sets over ScorerTags, before either call.
InitScorer ==
  /\ paintings = <<>>
  /\ InitScripts
  /\ cls_tags1 \in SUBSET ScorerTags
  /\ cls_tags2 \in SUBSET ScorerTags
  /\ cls_forward = <<>>
  /\ cls_backward = <<>>

\* ------------------------------------------------------- pairing rounds

\* The pairing loops of 10_computable_moments.py create_frameglasses and of
\* 110_oily_portraits.py fast_pair_portraits, run round by round on the
\* portraits of one input. Both loops take the front portrait and one partner
\* per round, so they have the same number of rounds.

\* portraits.sort(...) in create_frameglasses, items.sort(...) in
\* fast_pair_portraits.
Pairing_Sort ==
  /\ pc = "start"
  /\ cm_pool' = SortByTagCount(PortraitItems(paintings), <<>>)
  /\ fp_pool' = SortByTagCount(PortraitItems(paintings), <<>>)
  /\ pc' = "pairing"
  /\ UNCHANGED <<paintings, scorerVars, batchVars, graphVars, error, score, frameglasses, sequence>>
  /\ UNCHANGED <<poolVars, pandasVars, cm_paired, fp_used, fp_pairs>>

\* One round of each while loop.
Pairing_Round ==
  /\ pc = "pairing"
  /\ Len(cm_pool) > 1
  /\ LET c == CM_Round(cm_pool, cm_paired)
         f == FP_Round(fp_pool, fp_used, fp_pairs)
     IN  /\ cm_pool' = c.pool
         /\ cm_paired' = c.paired
         /\ fp_pool' = f.pool
         /\ fp_used' = f.used
         /\ fp_pairs' = f.pairs
  /\ UNCHANGED <<paintings, scorerVars, batchVars, graphVars, pc, error, score, frameglasses, sequence>>
  /\ UNCHANGED <<poolVars, pandasVars>>

\* At most one portrait is left: create_frameglasses leaves its while loop and
\* adds the remaining portrait, fast_pair_portraits runs its last iteration.
Pairing_Last ==
  /\ pc = "pairing"
  /\ Len(cm_pool) <= 1
  /\ cm_paired' = CM_Remaining(cm_pool, cm_paired)
  /\ IF fp_pool # <<>>
     THEN LET f == FP_Round(fp_pool, fp_used, fp_pairs)
          IN  /\ fp_pool' = f.pool
              /\ fp_used' = f.used
              /\ fp_pairs' = f.pairs
     ELSE UNCHANGED <<fp_pool, fp_used, fp_pairs>>
  /\ pc' = "paired"
  /\ UNCHANGED <<paintings, scorerVars, batchVars, graphVars, error, score, frameglasses, sequence, cm_pool>>
  /\ UNCHANGED <<poolVars, pandasVars>>

\* The example of four portraits with the tag sets {a}, {a,b}, {c}, {c,d}.
ExampleTagSets == {{"a"}, {"a", "b"}, {"c"}, {"c", "d"}}

ExamplePaintings ==
  << [ptype |-> "P", tags |-> {"a"}], [ptype |-> "P", tags |-> {"a", "b"}],
     [ptype |-> "P", tags |-> {"c"}], [ptype |-> "P", tags |-> {"c", "d"}] >>

\* Four portraits, each with one of the example's tag sets.
InitExample ==
  /\ paintings \in [1..Len(ExamplePaintings) -> [ptype : {"P"}, tags : ExampleTagSets]]
  /\ InitRest

\* ---------------------------------------------------------- specification

Next ==
  \/ Main_CreateFrameglasses
  \/ Main_ExitEmpty
  \/ Main_DivideChunks
  \/ \E k \in 1..Len(workers) : Worker_TakeChunk(k)
  \/ \E k \in 1..Len(workers) : Worker_Step(k)
  \/ \E k \in 1..Len(workers) : Worker_Return(k)
  \/ Main_MergeChunks
  \/ Main_CalculateScore
  \/ CM_CreateFrameglasses
  \/ CM_OptimizeSequence
  \/ CM_CalculateScore
  \/ OP_PairPortraits
  \/ OP_GreedyArrangement
  \/ OP_CalculateScore
  \/ RP_BuildFrames
  \/ RP_BatchProcessing
  \/ RP_CalculateScore

NextPairing ==
  \/ Pairing_Sort
  \/ Pairing_Round
  \/ Pairing_Last

\* Each script run on any input: the scripts are separate programs, and a
\* behaviour follows one of them from the parsed input to its end.
Spec == Init /\ [][Next]_vars

\* The two pairing loops, round by round, on the portraits of any input.
SpecPairing == Init /\ [][NextPairing]_vars

\* The two pairing loops on the example's portraits.
SpecExample == InitExample /\ [][NextPairing]_vars

\* Inputs that fill two batches of MaxBatchSize frames: landscapes, each a
\* frame of its own, and four portraits followed by landscapes, which make
\* a batch of two-index and one-index frames.
BatchTypes ==
  {[p \in 1..MaxBatchPaintings |-> "L"],
   [p \in 1..MaxBatchPaintings |-> IF p <= 4 THEN "P" ELSE "L"]}

BatchInputs ==
  {[p \in 1..MaxBatchPaintings |-> [ptype |-> types[p], tags |-> tagsets[p]]] :
     types \in BatchTypes, tagsets \in [1..MaxBatchPaintings -> ScoringTagSets]}

InitBatches == paintings \in (SmallInputs \cup BatchInputs) /\ InitRest

\* 11_randomizing_paintings.py up to the end of batch_processing.
NextBatches ==
  \/ RP_BuildFrames
  \/ BP_OrderBatches
  \/ BP_MergeNext
  \/ BP_Return

SpecBatches == InitBatches /\ [][NextBatches]_vars

\* The two calls of the scorer, in either order, on any two tag sets.
NextScorer ==
  \/ Scorer_Call
  \/ Scorer_CallSwapped

SpecScorer == InitScorer /\ [][NextScorer]_vars

\* The graph-based script on any input.
NextGraph ==
  \/ BL_ReadInput
  \/ BL_ConstructGraph
  \/ BL_ForPainting
  \/ BL_TraverseStep
  \/ BL_TraverseReturn
  \/ BL_CalculateScore

SpecGraph == Init /\ [][NextGraph]_vars

\* The greedy loops of optimize_chunk (in the pool processes) and of
\* greedy_arrangement, one iteration per step.
NextLoops ==
  \/ Main_CreateFrameglasses
  \/ Main_DivideChunks
  \/ \E k \in 1..Len(workers) : Worker_TakeChunk(k)
  \/ \E k \in 1..Len(workers) : Worker_Step(k)
  \/ \E k \in 1..Len(workers) : Worker_Return(k)
  \/ OP_PairPortraits
  \/ GA_Enter
  \/ GA_Iterate
  \/ GA_Return

\* A started process keeps running: the operating system schedules every pool
\* process, and the loop of greedy_arrangement runs in the only thread.
FairLoops ==
  /\ \A k \in 1..MaxPaintings :
       /\ WF_vars(k \in 1..Len(workers) /\ Worker_TakeChunk(k))
       /\ WF_vars(k \in 1..Len(workers) /\ Worker_Step(k))
       /\ WF_vars(k \in 1..Len(workers) /\ Worker_Return(k))
  /\ WF_vars(GA_Iterate)
  /\ WF_vars(GA_Return)

\* Inputs long enough for greedy_arrangement to iterate more than once: it
\* orders the frames of fast_pair_portraits, one for every two paintings.
\* They are portraits of one tag each, so that the pairs make frames of two
\* tags, which score 1 and 0 against each other.
LongInputs ==
  [1..MaxLoopPaintings -> [ptype : {"P"}, tags : {{"a"}, {"b"}, {"c"}}]]

InitLoops == paintings \in (SmallInputs \cup LongInputs) /\ InitRest

SpecLoops == InitLoops /\ [][NextLoops]_vars /\ FairLoops

\* ----------------------------------------------------------------- claims

\* The frames (index lists) of a list of frameglasses.
FramesOf(fgs) == [p \in 1..Len(fgs) |-> fgs[p][1]]

\* All indices of a list of frames, in order, with repetitions.
RECURSIVE Flatten(_)
Flatten(fs) == IF fs = <<>> THEN <<>> ELSE Head(fs) \o Flatten(Tail(fs))

\* The frames hold each of the indices 0..n-1 once and nothing else.
IsPartition(fs, n) ==
  LET flat == Flatten(fs)
  IN  Len(flat) = n /\ Range(flat) = 0..(n - 1)

Count(s, x) == Cardinality({p \in 1..Len(s) : s[p] = x})

\* out holds the elements of inp, each as often as inp does.
IsPermutationOf(out, inp) ==
  /\ Len(out) = Len(inp)
  /\ \A x \in Range(inp) \cup Range(out) : Count(out, x) = Count(inp, x)

NumPortraits == Cardinality({p \in 1..Len(paintings) : paintings[p].ptype = "P"})

NumLandscapes == Cardinality({p \in 1..Len(paintings) : paintings[p].ptype = "L"})

\* C1: the frameglasses create_frameglasses returns (main.py and
\* 10_computable_moments.py) partition the painting indices 0..N-1: every index
\* is in exactly one frameglass, once.
C1_BuilderPartitions ==
  pc \in {"main_built", "cm_built"}
    => IsPartition(FramesOf(frameglasses), Len(paintings))

\* C1 witness: main.py has built the frameglasses of an input that mixes a
\* landscape with portraits without tags.
C1_Witness ==
  /\ pc = "main_built"
  /\ NumLandscapes >= 1
  /\ \E p, q \in 1..Len(paintings) :
       /\ p # q
       /\ paintings[p] = [ptype |-> "P", tags |-> {}]
       /\ paintings[q] = [ptype |-> "P", tags |-> {}]

\* The input list of each optimizer whose output the state holds: the list
\* a script passes on is a function of the parsed input.
CM_Input == CM_create_frameglasses(paintings)

OP_Input == fast_pair_portraits(AllItems(paintings))

C3_EmptyInputEndsWell ==
  (paintings = <<>> /\ pc \in {"cm_error", "cm_done", "main_exit", "main_done"})
    => /\ error = "none"
       /\ sequence = <<>>
       /\ score \in {<<>>, <<0>>}
       /\ pc \in {"cm_done", "main_done"} => score = <<0>>

\* The position of x in a list without repetitions.
PositionIn(s, x) == CHOOSE p \in 1..Len(s) : s[p] = x

\* Every element of seq behind the head was, when it was appended, a best
\* candidate of the pool (the elements of inp not yet in seq): none scored
\* higher against the tail, and of those scoring as high it stood first in the
\* pool. The pool keeps the order of inp, since pop and remove keep the order
\* of what stays.
GreedyOrdered(seq, inp) ==
  \A k \in 2..Len(seq) :
    LET tail == seq[k - 1][2]
        chosen == seq[k]
        placed == {seq[j] : j \in 1..k}
    IN  \A x \in Range(inp) \ placed :
          \/ calculate_local_satisfaction(tail, x[2])
               < calculate_local_satisfaction(tail, chosen[2])
          \/ /\ calculate_local_satisfaction(tail, x[2])
                  = calculate_local_satisfaction(tail, chosen[2])
             /\ PositionIn(inp, chosen) < PositionIn(inp, x)

\* C4: at every step of optimize_sequence and of optimize_chunk the appended
\* frameglass has the greatest local satisfaction against the tail among the
\* remaining ones, the first of the pool winning ties; so both functions return
\* the same sequence on the same input.
C4_GreedyFirstBest ==
  /\ pc = "cm_sequenced"
       => /\ GreedyOrdered(sequence, CM_Input)
          /\ sequence = optimize_chunk(CM_Input)
  /\ pc = "main_map"
       => \A k \in 1..Len(workers) :
            /\ workers[k].state # "queued"
                 => GreedyOrdered(workers[k].sequence, chunks[k])
            /\ workers[k].state = "done"
                 => optimized_chunks[k] = optimize_sequence(chunks[k])

\* C4 witness: optimize_chunk has returned a chunk of three frameglasses in
\* another order than it came in: the later candidate scored higher.
C4_Witness ==
  /\ pc = "main_map"
  /\ \E k \in 1..Len(workers) :
       /\ workers[k].state = "done"
       /\ Len(chunks[k]) = MaxPaintings
       /\ optimized_chunks[k] # chunks[k]

\* A frameglass holding one portrait and nothing else.
IsLonePortrait(frame) == Len(frame) = 1 /\ paintings[frame[1] + 1].ptype = "P"

\* C5: create_frameglasses pairs all portraits two by two: with P portraits the
\* output holds P div 2 two-portrait frameglasses, and one one-portrait
\* frameglass when P is odd, none when P is even.
C5_AllPortraitsPaired ==
  pc \in {"main_built", "cm_built"}
    => LET fs == FramesOf(frameglasses)
       IN  /\ Cardinality({p \in 1..Len(fs) : Len(fs[p]) = 2}) = NumPortraits \div 2
           /\ Cardinality({p \in 1..Len(fs) : IsLonePortrait(fs[p])}) = NumPortraits % 2

\* Every frame of two indices holds two distinct portraits, and every
\* landscape is alone in its frame.
FramesRespectTypes(fs) ==
  \A p \in 1..Len(fs) :
    /\ Len(fs[p]) = 2
         => /\ fs[p][1] # fs[p][2]
            /\ paintings[fs[p][1] + 1].ptype = "P"
            /\ paintings[fs[p][2] + 1].ptype = "P"
    /\ \A i \in 1..Len(fs[p]) : paintings[fs[p][i] + 1].ptype = "L" => Len(fs[p]) = 1

\* C6: in the frameglasses main.py builds and in the frames
\* 110_oily_portraits.py builds (fast_pair_portraits as its pipeline calls it),
\* a frame of two holds two distinct portraits and a landscape is alone.
C6_PairsArePortraits ==
  /\ pc = "main_built" => FramesRespectTypes(FramesOf(frameglasses))
  /\ pc = "op_paired" => FramesRespectTypes(frames)

\* C7: the 11_randomizing_paintings pipeline ends with every painting index of
\* the input in exactly one frame of the final sequence, whatever the input,
\* paintings without tags included.
C7_EveryPaintingOnce ==
  pc \in {"rp_error", "rp_ordered", "rp_done"}
    => /\ error = "none"
       /\ IsPartition(arranged, Len(paintings))

\* The front portrait of the pool has equally many tags in common with each
\* of the other portraits of the pool.
UniformOverlap(pool) ==
  \A i, j \in 2..Len(pool) :
    Cardinality(pool[1][2] \cap pool[i][2]) = Cardinality(pool[1][2] \cap pool[j][2])

\* C8 as claimed: choosing the partner by greatest union size and by greatest
\* union size less intersection size gives the same list of pairs (stated for
\* the inputs that both scripts read: every painting has a tag).
C8_SamePairs ==
  (pc = "paired" /\ ~read_input_raises(paintings)) => fp_pairs = FramesOf(cm_paired)

\* C8 as amended: in a round that both loops enter with the same pool, and in
\* which the front portrait has equally many tags in common with every
\* candidate, both criteria select the same partner: both append the same pair
\* and leave the same pool.
C8_SamePartnerOnEqualOverlap ==
  [][(pc = "pairing" /\ Len(cm_pool) > 1 /\ cm_pool = fp_pool /\ UniformOverlap(cm_pool))
       => /\ cm_pool' = fp_pool'
          /\ fp_pairs' = FramesOf(cm_paired')]_vars

\* C8 witness: the first round of three portraits is over; the front portrait
\* had one or more tags in common with both candidates, as many with the one as
\* with the other, and both loops made the same pair.
C8_Witness ==
  LET pool == SortByTagCount(PortraitItems(paintings), <<>>)
  IN  /\ pc = "pairing"
      /\ Len(pool) = MaxPaintings
      /\ UniformOverlap(pool)
      /\ pool[1][2] \cap pool[2][2] # {}
      /\ Len(cm_paired) = 1
      /\ fp_pairs = FramesOf(cm_paired)

\* C9 as claimed: of the example's portraits, {a} (index 0) is paired with
\* {c,d} (index 3) and not with {a,b} (index 1).
C9_PairsAWithCD ==
  (paintings = ExamplePaintings /\ pc = "paired")
    => /\ \E p \in 1..Len(cm_paired) : cm_paired[p][1] \in {<<0, 3>>, <<3, 0>>}
       /\ ~ \E p \in 1..Len(cm_paired) : cm_paired[p][1] \in {<<0, 1>>, <<1, 0>>}

\* C9 as amended: after the sort {a,b} (index 1) is the front portrait and
\* takes {c,d} (index 3), their union having four tags; {a} (index 0) is then
\* paired with {c} (index 2).
C9_ExamplePairs ==
  (paintings = ExamplePaintings /\ pc = "paired")
    => cm_paired = << << <<1, 3>>, {"a", "b", "c", "d"} >>, << <<0, 2>>, {"a", "c"} >> >>

\* C9 witness: the example's portraits are paired.
C9_Witness == paintings = ExamplePaintings /\ pc = "paired" /\ Len(cm_paired) = 2

\* The positions of the frameglasses of chunk k in the list of all of them.
ChunkPositions(k) ==
  ((k - 1) * chunk_size + 1)..Min2(k * chunk_size, Len(frameglasses))

\* C10: whatever order the pool processes take and finish the chunks in, the
\* merged sequence is optimize_chunk of each contiguous chunk of chunk_size
\* frameglasses, in chunk order: chunk k fills the positions of chunk k, and a
\* process holds the frameglasses of its own chunk only.
C10_ChunksMergedInOrder ==
  /\ pc \in {"main_map", "main_merged", "main_done"}
       => \A k \in 1..Len(chunks) :
            chunks[k] = [i \in 1..Cardinality(ChunkPositions(k)) |->
                           frameglasses[(k - 1) * chunk_size + i]]
  /\ pc = "main_map"
       => \A k \in 1..Len(workers) :
            /\ workers[k].state = "queued" => optimized_chunks[k] = <<>>
            /\ workers[k].state = "running"
                 => /\ optimized_chunks[k] = <<>>
                    /\ IsPermutationOf(workers[k].sequence \o workers[k].remaining,
                                       chunks[k])
            /\ workers[k].state = "done"
                 => optimized_chunks[k] = optimize_chunk(chunks[k])
  /\ pc \in {"main_merged", "main_done"}
       => /\ Len(sequence) = Len(frameglasses)
          /\ \A k \in 1..Len(chunks) :
               /\ [i \in 1..Cardinality(ChunkPositions(k)) |->
                     sequence[(k - 1) * chunk_size + i]] = optimize_chunk(chunks[k])
               /\ {sequence[i] : i \in ChunkPositions(k)}
                    = {frameglasses[i] : i \in ChunkPositions(k)}

\* C10 witness: two chunks are merged, the last one shorter than chunk_size.
C10_Witness ==
  /\ pc = "main_merged"
  /\ Len(chunks) = 2
  /\ Len(chunks[2]) < chunk_size
  /\ Len(sequence) = MaxPaintings

\* The position of remaining the scan of optimize_chunk leaves in best_next
\* for the process holding chunk k, 0 for None.
C11_WorkerBestNext(k) == OC_BestNext(workers[k].sequence, workers[k].remaining)

\* In every iteration entered with a non-empty pool the scan has selected a
\* candidate: best_next and best_pair are not None.
C11_Selects ==
  /\ pc = "main_map"
       => \A k \in 1..Len(workers) :
            (workers[k].state = "running" /\ workers[k].remaining # <<>>)
              => C11_WorkerBestNext(k) \in 1..Len(workers[k].remaining)
  /\ (pc = "op_arranging" /\ frames # <<>>)
       => GA_BestIndex \in 1..Min2(Len(frames), ArrangeWindow)

\* One iteration moves exactly one element of the pool to the end of the
\* sequence: the pool is one shorter, the sequence one longer, and nothing
\* is lost or repeated.
C11_TakesOne(seq, pool, seq2, pool2) ==
  /\ Len(pool2) = Len(pool) - 1
  /\ Len(seq2) = Len(seq) + 1
  /\ SubSeq(seq2, 1, Len(seq)) = seq
  /\ seq2[Len(seq2)] \in Range(pool)
  /\ IsPermutationOf(seq2 \o pool2, seq \o pool)

C11_Iteration ==
  /\ pc = "main_map"
       => \A k \in 1..Len(workers) :
            (workers[k].state = "running" /\ workers[k].remaining # <<>>
               /\ workers'[k] # workers[k])
              => C11_TakesOne(workers[k].sequence, workers[k].remaining,
                              workers'[k].sequence, workers'[k].remaining)
  /\ (pc = "op_arranging" /\ frames # <<>> /\ <<frames, arranged>>' # <<frames, arranged>>)
       => C11_TakesOne(arranged, frames, arranged', frames')

\* The iterations done so far are the elements appended after the head, so a
\* loop that ends with the whole input in the sequence has done len(input) - 1.
C11_Counts ==
  /\ pc = "main_map"
       => \A k \in 1..Len(workers) :
            /\ workers[k].state = "running"
                 => Len(workers[k].sequence) + Len(workers[k].remaining) = Len(chunks[k])
            /\ workers[k].state = "done"
                 => Len(optimized_chunks[k]) = Len(chunks[k])
  /\ pc = "op_arranging" => Len(arranged) + Len(frames) = Len(OP_Input)
  /\ pc = "op_arranged" => Len(arranged) = Len(OP_Input) /\ frames = <<>>

\* Every loop entered ends with an empty pool.
C11_Terminates ==
  /\ (pc = "main_map")
       ~> (pc = "main_map" /\ \A k \in 1..Len(workers) : workers[k].state = "done")
  /\ (pc = "op_arranging") ~> (pc = "op_arranged")

\* C11: the greedy loops of optimize_chunk and greedy_arrangement never stall:
\* every iteration entered with a non-empty pool selects a candidate, also when
\* every candidate scores 0, appends it and removes it from the pool, so the
\* pool shrinks by one per iteration and the loop ends with an empty pool
\* after len(input) - 1 iterations.
C11_GreedyLoopsNeverStall ==
  /\ [](C11_Selects /\ C11_Counts)
  /\ [][C11_Iteration]_vars
  /\ C11_Terminates

\* C11 witness: greedy_arrangement is in its last iteration on a list of
\* three frames, after an iteration in which every candidate scored 0.
C11_Witness ==
  /\ pc = "op_arranging"
  /\ Len(arranged) = 2
  /\ Len(frames) = 1
  /\ \A f \in Range(OP_Input) :
       calculate_local_satisfaction(
         FrameTags(arranged[1], TagsCache(paintings)),
         FrameTags(f, TagsCache(paintings))) = 0

\* The same for optimize_chunk in a pool process, on a chunk of three.
C11_WorkerWitness ==
  /\ pc = "main_map"
  /\ \E k \in 1..Len(workers) :
       /\ workers[k].state = "running"
       /\ Len(workers[k].sequence) = 2
       /\ Len(workers[k].remaining) = 1
       /\ \A x \in Range(chunks[k]) :
            calculate_local_satisfaction(workers[k].sequence[1][2], x[2]) = 0

\* C12: on an input all of whose paintings have tags, the traversals of
\* process_landscapes_with_graph end without error, and the frames collected
\* are one-index frames holding every painting index 0..N-1 exactly once.
C12_TraversalCoversAll ==
  (pc \in {"bl_error", "bl_done"} /\ ~read_input_raises(paintings))
    => /\ error = "none"
       /\ IsPartition(sequences, Len(paintings))
       /\ \A p \in 1..Len(sequences) : Len(sequences[p]) = 1

\* The three counts of the claim, from the sizes of the sets and of their
\* union.
C13_Common == Cardinality(cls_tags1) + Cardinality(cls_tags2)
                - Cardinality(cls_tags1 \cup cls_tags2)

C13_Only1 == Cardinality(cls_tags1 \cup cls_tags2) - Cardinality(cls_tags2)

C13_Only2 == Cardinality(cls_tags1 \cup cls_tags2) - Cardinality(cls_tags1)

\* A call returns the least of the three counts, and the two calls agree.
C13_Value ==
  /\ \A r \in Range(cls_forward) \cup Range(cls_backward) :
       /\ r \in {C13_Common, C13_Only1, C13_Only2}
       /\ r <= C13_Common /\ r <= C13_Only1 /\ r <= C13_Only2
  /\ (cls_forward # <<>> /\ cls_backward # <<>>) => cls_forward = cls_backward

\* A call leaves both argument sets as they were.
C13_ArgumentsKept == cls_tags1' = cls_tags1 /\ cls_tags2' = cls_tags2

\* C13: calculate_local_satisfaction is symmetric: for all tag sets A and B,
\* calculate_local_satisfaction(A, B) = calculate_local_satisfaction(B, A),
\* the value is min(|A n B|, |A \ B|, |B \ A|), and neither argument set is
\* modified.
C13_ScorerSymmetric == []C13_Value /\ [][C13_ArgumentsKept]_vars

\* C13 witness: both calls are done on two sets that score 2.
C13_Witness ==
  /\ cls_forward = <<2>>
  /\ cls_backward = <<2>>
  /\ cls_tags1 # cls_tags2

\* The batches batch_processing cuts frames into.
C14_Batches == Slices(frames, batch_size)

\* fast_greedy applied once to each of the first n batches.
C14_OrderedOnce(n) ==
  [b \in 1..n |-> fast_greedy(C14_Batches[b], TagsCache(paintings))]

\* The satisfaction of a frame against the frame before position k of seq.
C14_Satisfaction(seq, k, frame) ==
  calculate_local_satisfaction(FrameTags(seq[k - 1], TagsCache(paintings)),
                               FrameTags(frame, TagsCache(paintings)))

\* seq keeps the head of batch, and every later frame of seq had, among the
\* frames of batch not yet placed, the greatest satisfaction against the frame
\* before it and, of those, the least index list.
C14_HeapOrdered(seq, batch) ==
  /\ seq[1] = batch[1]
  /\ \A k \in 2..Len(seq) :
       \A x \in Range(batch) \ {seq[j] : j \in 1..k} :
         \/ C14_Satisfaction(seq, k, x) < C14_Satisfaction(seq, k, seq[k])
         \/ /\ C14_Satisfaction(seq, k, x) = C14_Satisfaction(seq, k, seq[k])
            /\ ListLess(seq[k], x)

\* C14: batch_processing returns the concatenation, in batch order, of
\* fast_greedy applied once to each contiguous batch of batch_size frames: the
\* second fast_greedy pass on a batch leaves its order as it is,
\* fast_greedy(fast_greedy(b)) = fast_greedy(b), the heap taking the greatest
\* score and, among equal scores, the least index list.
C14_BatchesOrderedOnce ==
  (pc \in {"bp_merging", "rp_ordered"} /\ batch_size > 0)
    => LET n == Len(C14_Batches)
           merged == n - Len(ordered_batches)
           once == C14_OrderedOnce(n)
       IN  /\ ordered_batches = [b \in 1..(n - merged) |-> once[merged + b]]
           /\ arranged = Flatten(SubSeq(once, 1, merged))
           /\ pc = "rp_ordered" => merged = n
           /\ \A b \in 1..n :
                /\ fast_greedy(once[b], TagsCache(paintings)) = once[b]
                /\ IsPermutationOf(once[b], C14_Batches[b])
                /\ C14_HeapOrdered(once[b], C14_Batches[b])

\* C14 witness: batch_processing has returned on two batches of three frames,
\* and in the second batch two candidates tied against the head and the heap
\* took the one met later, so the batch was reordered.
C14_Witness ==
  /\ pc = "rp_ordered"
  /\ batch_size = MaxBatchSize
  /\ Len(C14_Batches) = 2
  /\ LET batch == C14_Batches[2]
     IN  /\ Len(batch) = 3
         /\ C14_Satisfaction(batch, 2, batch[2]) = C14_Satisfaction(batch, 2, batch[3])
         /\ SubSeq(arranged, 4, 6) = <<batch[1], batch[3], batch[2]>>

====
